---------------------------- MODULE Spec2Model ----------------------------
(***************************************************************************)
(* A model of the psico PyMOL extensions: the apbs retry loop of           *)
(* map_new_apbs (electrostatics.py), pdbremarks / biomolecule /            *)
(* symexpcell / supercell (xtal.py), contactmap (contactmap.py) and        *)
(* centerofmass (querying.py).                                             *)
(*                                                                         *)
(* The host application (pymol.cmd) and the external apbs executable are   *)
(* the environment: what they return is an input drawn from a small set,   *)
(* and what the commands ask of them is kept in a log of calls.            *)
(***************************************************************************)
EXTENDS Integers, Sequences, FiniteSets, TLC

VARIABLES
    \* ---- map_new_apbs (electrostatics.py)
    apbs_pc,      \* position in map_new_apbs: "loop", "run", "after", "done", "raised"
    apbs_i,       \* number of iterations of "for _ in range(3)" already started
    grid,         \* the local grid, in whole units of the smallest spacing asked for
    grid0,        \* the argument grid, as passed
    fglen,        \* one of the fine-grid lengths fglen (same units as grid)
    dime,         \* apbs_in['dime'] of the input file last written
    r,            \* exit code of the last subprocess.call
    apbs_calls,   \* the invocations of the executable: <<[grid, dime, r]>>
    apbs_exc,     \* "" or the message of the CmdException raised
    \* ---- pdbremarks, biomolecule (xtal.py)
    file,         \* the lines of the file read, each a sequence of characters
    number,       \* the argument number of biomolecule
    remarks,      \* the dictionary pdbremarks returned
    biomt,        \* the local biomt of biomolecule after the REMARK 350 loop
    xtal_exc,     \* "" or the exception the command ended with
    xtal_calls,   \* the calls made to the host (cmd.create, cmd.alter, ...), in order
    xtal_pc,      \* "start" or "done"
    \* ---- contactmap (contactmap.py)
    align,        \* the lines of the contact file, each the fields of s.split()
    stored_resdict, \* stored.resdict, which lives on between calls
    cm_args,      \* the arguments of the last call of contactmap
    cm_made,      \* the cmd.distance calls of the last call, in order
    cm_exc,       \* "" or the exception the last call ended with
    cm_calls,     \* number of calls of contactmap so far
    cm_prior,     \* stored.resdict as the last call found it
    \* ---- symexpcell, supercell (xtal.py)
    sym_in,       \* the arguments and what the host returns for the object
    sym_calls,    \* the calls made to the host, in order
    cgo,          \* the vertices of the cgo object loaded by supercell
    sym_pc,       \* "start" or "done"
    \* ---- centerofmass (querying.py)
    com_in,       \* the argument state and the host's states and atoms
    com,          \* the local com: the weighted sum of coordinates
    totmass,      \* the local totmass
    com_exc,      \* "" or the exception raised
    com_pc        \* "start" or "done"

apbsVars == <<apbs_pc, apbs_i, grid, grid0, fglen, dime, r, apbs_calls, apbs_exc>>

xtalVars == <<file, number, remarks, biomt, xtal_exc, xtal_calls, xtal_pc>>

contactVars == <<align, stored_resdict, cm_args, cm_made, cm_exc, cm_calls, cm_prior>>

symVars == <<sym_in, sym_calls, cgo, sym_pc>>

comVars == <<com_in, com, totmass, com_exc, com_pc>>

vars == <<apbsVars, xtalVars, contactVars, symVars, comVars>>

\* the subsystems at rest
ApbsIdle ==
    /\ apbs_pc = "idle" /\ apbs_i = 0 /\ grid = 0 /\ grid0 = 0 /\ fglen = 0
    /\ dime = 0 /\ r = 0 /\ apbs_calls = <<>> /\ apbs_exc = ""

XtalIdle ==
    /\ file = <<>> /\ number = 0 /\ remarks = <<>> /\ biomt = <<>>
    /\ xtal_exc = "" /\ xtal_calls = <<>> /\ xtal_pc = "idle"

ContactIdle ==
    /\ align = <<>> /\ stored_resdict = <<>> /\ cm_args = <<>> /\ cm_made = <<>>
    /\ cm_exc = "" /\ cm_calls = 0 /\ cm_prior = <<>>

SymIdle == sym_in = <<>> /\ sym_calls = <<>> /\ cgo = <<>> /\ sym_pc = "idle"

ComIdle == com_in = <<>> /\ com = <<>> /\ totmass = 0 /\ com_exc = "" /\ com_pc = "idle"

Max(x, y) == IF x >= y THEN x ELSE y
Min(x, y) == IF x <= y THEN x ELSE y

(***************************************************************************)
(* Python strings, as sequences of characters, and Python dictionaries, as *)
(* sequences of <<key, value>> in insertion order                          *)
(***************************************************************************)

Whitespace == {" ", "\n"}
Digits == {"0", "1", "2", "3", "4", "5", "6", "7", "8", "9"}

DigitVal(c) ==
    CASE c = "0" -> 0 [] c = "1" -> 1 [] c = "2" -> 2 [] c = "3" -> 3 [] c = "4" -> 4
      [] c = "5" -> 5 [] c = "6" -> 6 [] c = "7" -> 7 [] c = "8" -> 8 [] c = "9" -> 9

\* s[a:b] and s[a:]
Slice(s, a, b) == SubSeq(s, a + 1, Min(b, Len(s)))
SliceFrom(s, a) == SubSeq(s, a + 1, Len(s))

\* s.startswith(p)
StartsWith(s, p) == Len(s) >= Len(p) /\ SubSeq(s, 1, Len(p)) = p

RECURSIVE LStrip(_)
LStrip(s) == IF s # <<>> /\ Head(s) \in Whitespace THEN LStrip(Tail(s)) ELSE s

RECURSIVE RStrip(_)
RStrip(s) ==
    IF s # <<>> /\ s[Len(s)] \in Whitespace THEN RStrip(SubSeq(s, 1, Len(s) - 1)) ELSE s

\* s.strip()
Strip(s) == RStrip(LStrip(s))

RECURSIVE DigitsVal(_)
DigitsVal(s) ==
    IF s = <<>> THEN 0 ELSE 10 * DigitsVal(SubSeq(s, 1, Len(s) - 1)) + DigitVal(s[Len(s)])

AllDigits(s) == s # <<>> /\ \A k \in 1..Len(s) : s[k] \in Digits

\* int(s): defined when IsInt(s), ValueError otherwise
IsInt(s) ==
    LET t == Strip(s) IN
    IF t # <<>> /\ Head(t) \in {"-", "+"} THEN AllDigits(Tail(t)) ELSE AllDigits(t)

ParseInt(s) ==
    LET t == Strip(s) IN
    IF Head(t) = "-" THEN 0 - DigitsVal(Tail(t))
    ELSE IF Head(t) = "+" THEN DigitsVal(Tail(t))
    ELSE DigitsVal(t)

\* index of the first c in s, or 0
RECURSIVE Find(_, _, _)
Find(s, c, k) == IF k > Len(s) THEN 0 ELSE IF s[k] = c THEN k ELSE Find(s, c, k + 1)

\* float(s) for a decimal with at most one digit after the point, in tenths
IsFloat(s) ==
    LET t == Strip(s)
        u == IF t # <<>> /\ Head(t) \in {"-", "+"} THEN Tail(t) ELSE t
        d == Find(u, ".", 1)
    IN  IF d = 0 THEN AllDigits(u)
        ELSE /\ AllDigits(SubSeq(u, 1, d - 1))
             /\ Len(u) - d <= 1
             /\ \A k \in d + 1..Len(u) : u[k] \in Digits

ParseFloat(s) ==
    LET t == Strip(s)
        neg == Head(t) = "-"
        u == IF Head(t) \in {"-", "+"} THEN Tail(t) ELSE t
        d == Find(u, ".", 1)
        v == IF d = 0 THEN 10 * DigitsVal(u)
             ELSE 10 * DigitsVal(SubSeq(u, 1, d - 1)) + DigitsVal(SubSeq(u, d + 1, Len(u)))
    IN  IF neg THEN 0 - v ELSE v

\* s.split(c)
RECURSIVE SplitOn(_, _)
SplitOn(s, c) ==
    LET k == Find(s, c, 1) IN
    IF k = 0 THEN <<s>> ELSE <<SubSeq(s, 1, k - 1)>> \o SplitOn(SubSeq(s, k + 1, Len(s)), c)

\* index of the first whitespace character of s, or Len(s) + 1
RECURSIVE WordEnd(_, _)
WordEnd(s, k) == IF k > Len(s) \/ s[k] \in Whitespace THEN k ELSE WordEnd(s, k + 1)

\* s.split()
RECURSIVE SplitWs(_)
SplitWs(s) ==
    LET t == LStrip(s) IN
    IF t = <<>> THEN <<>>
    ELSE LET e == WordEnd(t, 1) IN <<SubSeq(t, 1, e - 1)>> \o SplitWs(SubSeq(t, e, Len(t)))

\* [f(x) for x in s]
RECURSIVE MapStrip(_)
MapStrip(s) == IF s = <<>> THEN <<>> ELSE <<Strip(Head(s))>> \o MapStrip(Tail(s))

RECURSIVE MapFloat(_)
MapFloat(s) == IF s = <<>> THEN <<>> ELSE <<ParseFloat(Head(s))>> \o MapFloat(Tail(s))

\* key in d
HasKey(d, k) == \E n \in 1..Len(d) : d[n][1] = k

\* d[k], for a key of d
Get(d, k) == d[CHOOSE n \in 1..Len(d) : d[n][1] = k][2]

\* d[k] = v: a new key goes last, a key of d keeps its place
Put(d, k, v) ==
    IF HasKey(d, k)
    THEN [n \in 1..Len(d) |-> IF d[n][1] = k THEN <<k, v>> ELSE d[n]]
    ELSE Append(d, <<k, v>>)

(***************************************************************************)
(* xtal.py: pdbremarks                                                     *)
(***************************************************************************)

\* "REMARK"
S_REMARK ==
    <<"R","E","M","A","R","K">>

\* lstring = line[11:]
RemarkTextFrom10(line) == SliceFrom(line, 10)

RemarkText(line) == SliceFrom(line, 11)

\* remarks.setdefault(num, []).append(lstring)
SetDefaultAppend(d, k, x) == Put(d, k, Append(IF HasKey(d, k) THEN Get(d, k) ELSE <<>>, x))

\* the loop "for line in f" of pdbremarks, from the dictionary built so far;
\* int(line[7:10]) raises ValueError on anything that is no integer
RECURSIVE PdbremarksLoop(_, _)
PdbremarksLoop(lines, d) ==
    IF lines = <<>> THEN [exc |-> "", remarks |-> d]
    ELSE LET line == Head(lines)
             recname == Slice(line, 0, 6)
         IN  IF recname = S_REMARK
             THEN IF IsInt(Slice(line, 7, 10))
                  THEN PdbremarksLoop(Tail(lines),
                           SetDefaultAppend(d, ParseInt(Slice(line, 7, 10)), RemarkText(line)))
                  ELSE [exc |-> "ValueError", remarks |-> d]
             ELSE PdbremarksLoop(Tail(lines), d)

\* pdbremarks(filename): remarks = dict(), then the loop
pdbremarks(lines) == PdbremarksLoop(lines, <<>>)

\* lines of a PDB file
\* "REMARK   2 RESOLUTION. 2.0\n"
F_Resolution ==
    <<"R","E","M","A","R","K"," "," "," ","2"," ","R","E","S","O","L","U","T","I","O","N","."," ","2",".","0","\n">>

\* "REMARK   2\n"
F_Short ==
    <<"R","E","M","A","R","K"," "," "," ","2","\n">>

\* "REMARK 350 BIOMOLECULE: 1\n"
F_Header350 ==
    <<"R","E","M","A","R","K"," ","3","5","0"," ","B","I","O","M","O","L","E","C","U","L","E",":"," ","1","\n">>

\* "ATOM      1  N   MET A   1\n"
F_Atom ==
    <<"A","T","O","M"," "," "," "," "," "," ","1"," "," ","N"," "," "," ","M","E","T"," ","A"," "," "," ","1","\n">>

\* "remark 350 BIOMOLECULE: 1\n"
F_Lower ==
    <<"r","e","m","a","r","k"," ","3","5","0"," ","B","I","O","M","O","L","E","C","U","L","E",":"," ","1","\n">>

\* "REMARK     SEE REMARK 350\n"
F_NoNumber ==
    <<"R","E","M","A","R","K"," "," "," "," "," ","S","E","E"," ","R","E","M","A","R","K"," ","3","5","0","\n">>

FileLines == {F_Resolution, F_Short, F_Header350, F_Atom, F_Lower, F_NoNumber}

\* the longest file read by pdbremarks
MaxFileLines == 3

SeqsUpTo(S, n) == UNION {[1..k -> S] : k \in 0..n}

RemarksInit ==
    /\ file \in SeqsUpTo(FileLines, MaxFileLines)
    /\ number = 0
    /\ remarks = <<>>
    /\ biomt = <<>>
    /\ xtal_exc = ""
    /\ xtal_calls = <<>>
    /\ xtal_pc = "start"
    /\ ApbsIdle /\ ContactIdle /\ SymIdle /\ ComIdle

\* a call of pdbremarks on the file
PdbremarksCall ==
    /\ xtal_pc = "start"
    /\ LET res == pdbremarks(file) IN
        /\ remarks' = res.remarks
        /\ xtal_exc' = res.exc
    /\ xtal_pc' = "done"
    /\ UNCHANGED <<file, number, biomt, xtal_calls, apbsVars, contactVars, symVars, comVars>>

RemarksNext == PdbremarksCall

SpecRemarks == RemarksInit /\ [][RemarksNext]_vars

\* the lines of the file that are REMARK records of number n, in file order
RemarkIndices(n) ==
    {i \in 1..Len(file) :
        /\ Len(file[i]) >= 6
        /\ SubSeq(file[i], 1, 6) = <<"R", "E", "M", "A", "R", "K">>
        /\ ParseInt(SubSeq(file[i], 8, Min(10, Len(file[i])))) = n}

\* the k-th smallest element of a set of numbers
KthOf(I, k) == CHOOSE i \in I : Cardinality({j \in I : j <= i}) = k

\* C4: pdbremarks returns a dictionary keyed by remark number; each value
\* lists, in file order, the text after the first 11 characters of every line
\* that starts with REMARK and carries the number; every REMARK line is in
\* exactly one list and no other line contributes.
C4_Pdbremarks ==
    xtal_pc = "done" /\ xtal_exc = "" =>
        /\ \A a, b \in 1..Len(remarks) : remarks[a][1] = remarks[b][1] => a = b
        /\ \A a \in 1..Len(remarks) :
            LET I == RemarkIndices(remarks[a][1])
                v == remarks[a][2]
            IN  /\ I # {}
                /\ Len(v) = Cardinality(I)
                /\ \A k \in 1..Len(v) :
                    LET line == file[KthOf(I, k)] IN v[k] = SubSeq(line, 12, Len(line))
        /\ \A i \in 1..Len(file) :
            Len(file[i]) >= 6 /\ SubSeq(file[i], 1, 6) = <<"R", "E", "M", "A", "R", "K">> =>
                \E a \in 1..Len(remarks) : i \in RemarkIndices(remarks[a][1])

\* two remark numbers, one of them with two lines around a line of another
\* record type
C4_Witness ==
    /\ xtal_pc = "done" /\ xtal_exc = ""
    /\ file = <<F_Resolution, F_Atom, F_Short>>
    /\ remarks = <<<<2, <<RemarkText(F_Resolution), <<>>>>>>>>

(***************************************************************************)
(* xtal.py: biomolecule                                                    *)
(***************************************************************************)

\* "BIOMOLECULE:"
S_BIOMOLECULE ==
    <<"B","I","O","M","O","L","E","C","U","L","E",":">>

\* "APPLY THE FOLLOWING TO CHAINS:"
S_APPLY ==
    <<"A","P","P","L","Y"," ","T","H","E"," ","F","O","L","L","O","W","I","N","G"," ","T","O"," ","C","H","A","I","N","S",":">>

\* "                   AND CHAINS:"
S_AND ==
    <<" "," "," "," "," "," "," "," "," "," "," "," "," "," "," "," "," "," "," ","A","N","D"," ","C","H","A","I","N","S",":">>

\* "  BIOMT"
S_BIOMT ==
    <<" "," ","B","I","O","M","T">>

\* tuple(chain.strip() for chain in line[30:].split(','))
ChainsOf(line) == MapStrip(SplitOn(SliceFrom(line, 30), ","))

\* chains += tuple(...) of an 'AND CHAINS:' line
ReplaceChains(chains, line) == ChainsOf(line)

ExtendChains(chains, line) == chains \o ChainsOf(line)

\* d.setdefault(k, default)
SetDefault(d, k, default) == IF HasKey(d, k) THEN d ELSE Append(d, <<k, default>>)

\* biomt[current].setdefault(chains, dict()).setdefault(num, []).extend(vec)
RecordBiomt(b, current, chains, num, vec) ==
    LET perChains == SetDefault(Get(b, current), chains, <<>>)
        perNum == SetDefault(Get(perChains, chains), num, <<>>)
    IN  Put(b, current,
            Put(perChains, chains, Put(perNum, num, Get(perNum, num) \o vec)))

\* the body of "for line in remarks[350]" on the state [current, biomt, chains, exc];
\* int() and float() raise ValueError on a malformed field
Remark350Line(st, line) ==
    IF StartsWith(line, S_BIOMOLECULE)
    THEN IF IsInt(SliceFrom(line, 12))
         THEN [st EXCEPT !.current = ParseInt(SliceFrom(line, 12)),
                         !.biomt = Put(st.biomt, ParseInt(SliceFrom(line, 12)), <<>>)]
         ELSE [st EXCEPT !.exc = "ValueError"]
    ELSE IF StartsWith(line, S_APPLY)
    THEN [st EXCEPT !.chains = ChainsOf(line)]
    ELSE IF StartsWith(line, S_AND)
    THEN [st EXCEPT !.chains = ExtendChains(st.chains, line)]
    ELSE IF StartsWith(line, S_BIOMT)
    THEN LET words == SplitWs(SliceFrom(line, 12)) IN
         IF /\ IsInt(Slice(line, 7, 8))
            /\ IsInt(Slice(line, 8, 12))
            /\ \A k \in 1..Len(words) : IsFloat(words[k])
         THEN [st EXCEPT !.biomt = RecordBiomt(st.biomt, st.current, st.chains,
                                       ParseInt(Slice(line, 8, 12)), MapFloat(words))]
         ELSE [st EXCEPT !.exc = "ValueError"]
    ELSE st

RECURSIVE Remark350Loop(_, _)
Remark350Loop(lines, st) ==
    IF lines = <<>> \/ st.exc # "" THEN st
    ELSE Remark350Loop(Tail(lines), Remark350Line(st, Head(lines)))

\* current = 1; biomt = {current: {}}; chains = tuple(); then the loop
ParseRemark350(lines) ==
    Remark350Loop(lines, [current |-> 1, biomt |-> <<<<1, <<>>>>>>, chains |-> <<>>, exc |-> ""])

\* if number not in biomt or len(biomt[number]) == 0
NotInBiomt(b, n) == ~HasKey(b, n)

NoBiomolecule(b, n) == ~HasKey(b, n) \/ Len(Get(b, n)) = 0

\* mat = matrices[num][0:12]
MatValues(vals) == Slice(vals, 0, 12)

\* the work list of the two nested loops over biomt[number]: <<chains, num, values>>
RECURSIVE NumsOf(_, _)
NumsOf(chains, matrices) ==
    IF matrices = <<>> THEN <<>>
    ELSE <<<<chains, Head(matrices)[1], Head(matrices)[2]>>>> \o NumsOf(chains, Tail(matrices))

RECURSIVE Operators(_)
Operators(perChains) ==
    IF perChains = <<>> THEN <<>>
    ELSE NumsOf(Head(perChains)[1], Head(perChains)[2]) \o Operators(Tail(perChains))

\* copy = '%s_%s_%d' % (prefix, suffix, num), with prefix = name and suffix = str(number)
CopyName(n, num) == [prefix |-> "name", suffix |-> n, num |-> num]

\* the body of the creation loop, from the calls made so far: cmd.create,
\* cmd.alter, numpy.reshape(mat, (4,4)) (ValueError unless mat has 16 values;
\* the object matrix of the source is the identity) and cmd.transform_object
RECURSIVE CreateLoop(_, _, _)
CreateLoop(ops, n, calls) ==
    IF ops = <<>> THEN [exc |-> "", calls |-> calls]
    ELSE LET chains == Head(ops)[1]
             num == Head(ops)[2]
             mat == MatValues(Head(ops)[3]) \o <<0, 0, 0, 10>>
             copy == CopyName(n, num)
             made == calls \o << [op |-> "create", name |-> copy, arg |-> chains],
                                 [op |-> "alter", name |-> copy, arg |-> <<num>>] >>
         IN  IF Len(mat) # 16
             THEN [exc |-> "ValueError", calls |-> made]
             ELSE CreateLoop(Tail(ops), n,
                      Append(made, [op |-> "transform_object", name |-> copy, arg |-> mat]))

\* the lines of REMARK 350: a header of biomolecule 1 or 2, the chains, two
\* operators of three rows each, and a REMARK of another number
\* "REMARK 350 BIOMOLECULE: 1\n"
B_Header1 ==
    << <<"R","E","M","A","R","K"," ","3","5","0"," ","B","I","O","M","O","L","E","C","U","L","E",":"," ","1","\n">> >>

\* "REMARK 350 BIOMOLECULE: 2\n"
B_Header2 ==
    << <<"R","E","M","A","R","K"," ","3","5","0"," ","B","I","O","M","O","L","E","C","U","L","E",":"," ","2","\n">> >>

\* "REMARK 350 APPLY THE FOLLOWING TO CHAINS: A, B\n"
B_Apply ==
    << <<"R","E","M","A","R","K"," ","3","5","0"," ","A","P","P","L","Y"," ","T","H","E"," ","F","O","L","L","O","W","I","N","G"," ","T","O"," ","C","H","A","I","N","S",":"," ","A",","," ","B","\n">> >>

\* "REMARK 350                    AND CHAINS: C\n"
B_And ==
    << <<"R","E","M","A","R","K"," ","3","5","0"," "," "," "," "," "," "," "," "," "," "," "," "," "," "," "," "," "," "," "," ","A","N","D"," ","C","H","A","I","N","S",":"," ","C","\n">> >>

\* "REMARK 350   BIOMT1   1  1.0 0.0 0.0 0.0\n"
\* "REMARK 350   BIOMT2   1  0.0 1.0 0.0 0.0\n"
\* "REMARK 350   BIOMT3   1  0.0 0.0 1.0 0.0\n"
B_Op1 ==
    << <<"R","E","M","A","R","K"," ","3","5","0"," "," "," ","B","I","O","M","T","1"," "," "," ","1"," "," ","1",".","0"," ","0",".","0"," ","0",".","0"," ","0",".","0","\n">>,
       <<"R","E","M","A","R","K"," ","3","5","0"," "," "," ","B","I","O","M","T","2"," "," "," ","1"," "," ","0",".","0"," ","1",".","0"," ","0",".","0"," ","0",".","0","\n">>,
       <<"R","E","M","A","R","K"," ","3","5","0"," "," "," ","B","I","O","M","T","3"," "," "," ","1"," "," ","0",".","0"," ","0",".","0"," ","1",".","0"," ","0",".","0","\n">> >>

\* "REMARK 350   BIOMT1   2 -1.0 0.0 0.0 9.5\n"
\* "REMARK 350   BIOMT2   2  0.0 1.0 0.0 0.0\n"
\* "REMARK 350   BIOMT3   2  0.0 0.0 -1.0 2.5\n"
B_Op2 ==
    << <<"R","E","M","A","R","K"," ","3","5","0"," "," "," ","B","I","O","M","T","1"," "," "," ","2"," ","-","1",".","0"," ","0",".","0"," ","0",".","0"," ","9",".","5","\n">>,
       <<"R","E","M","A","R","K"," ","3","5","0"," "," "," ","B","I","O","M","T","2"," "," "," ","2"," "," ","0",".","0"," ","1",".","0"," ","0",".","0"," ","0",".","0","\n">>,
       <<"R","E","M","A","R","K"," ","3","5","0"," "," "," ","B","I","O","M","T","3"," "," "," ","2"," "," ","0",".","0"," ","0",".","0"," ","-","1",".","0"," ","2",".","5","\n">> >>

\* "REMARK 300 BIOMOLECULE: 2\n"
B_Other ==
    << <<"R","E","M","A","R","K"," ","3","0","0"," ","B","I","O","M","O","L","E","C","U","L","E",":"," ","2","\n">> >>

Blocks == {B_Header1, B_Header2, B_Apply, B_And, B_Op1, B_Op2, B_Other}

\* the largest number of blocks of a file, and the largest number asked for
MaxBlocks == 3
MaxNumber == 2

RECURSIVE Flatten(_)
Flatten(ss) == IF ss = <<>> THEN <<>> ELSE Head(ss) \o Flatten(Tail(ss))

BiomoleculeInit ==
    /\ file \in {Flatten(bs) : bs \in SeqsUpTo(Blocks, MaxBlocks)}
    /\ number \in 1..MaxNumber
    /\ remarks = <<>>
    /\ biomt = <<>>
    /\ xtal_exc = ""
    /\ xtal_calls = <<>>
    /\ xtal_pc = "start"
    /\ ApbsIdle /\ ContactIdle /\ SymIdle /\ ComIdle

\* biomolecule(name, filename, number=number), filename given
Biomolecule ==
    /\ xtal_pc = "start"
    /\ LET res == pdbremarks(file) IN
        /\ remarks' = res.remarks
        /\ IF res.exc # ""
           THEN xtal_exc' = res.exc /\ UNCHANGED <<biomt, xtal_calls>>
           ELSE IF ~HasKey(res.remarks, 350)
           THEN xtal_exc' = "CmdException" /\ UNCHANGED <<biomt, xtal_calls>>
           ELSE LET st == ParseRemark350(Get(res.remarks, 350)) IN
                /\ biomt' = st.biomt
                /\ IF st.exc # ""
                   THEN xtal_exc' = st.exc /\ UNCHANGED xtal_calls
                   ELSE IF NoBiomolecule(st.biomt, number)
                   THEN xtal_exc' = "CmdException" /\ UNCHANGED xtal_calls
                   ELSE LET made == CreateLoop(Operators(Get(st.biomt, number)), number, <<>>) IN
                        /\ xtal_exc' = made.exc
                        /\ xtal_calls' =
                             IF made.exc # "" THEN made.calls
                             ELSE made.calls \o
                                  << [op |-> "disable", name |-> "name", arg |-> <<>>],
                                     [op |-> "group", name |-> [prefix |-> "name", suffix |-> number],
                                      arg |-> <<>>] >>
    /\ xtal_pc' = "done"
    /\ UNCHANGED <<file, number, apbsVars, contactVars, symVars, comVars>>

BiomoleculeNext == Biomolecule

SpecBiomolecule == BiomoleculeInit /\ [][BiomoleculeNext]_vars

\* ---- what REMARK 350 says, read off its lines L (the texts after column 11)

IsHeader(l) == StartsWith(l, S_BIOMOLECULE)
IsApply(l) == StartsWith(l, S_APPLY)
IsAnd(l) == StartsWith(l, S_AND)
IsBiomt(l) == StartsWith(l, S_BIOMT)

SetMax(S) == CHOOSE x \in S : \A y \in S : y <= x

\* the last 'BIOMOLECULE:' line before line i, or 0
HeaderBefore(L, i) ==
    LET H == {j \in 1..i - 1 : IsHeader(L[j])} IN IF H = {} THEN 0 ELSE SetMax(H)

\* the number of the most recent 'BIOMOLECULE:' line before line i, 1 if there is none
MostRecentNumber(L, i) ==
    IF HeaderBefore(L, i) = 0 THEN 1 ELSE ParseInt(SliceFrom(L[HeaderBefore(L, i)], 12))

\* the chains of the 'AND CHAINS:' lines among lines a..b
RECURSIVE AndChains(_, _, _)
AndChains(L, a, b) ==
    IF a > b THEN <<>>
    ELSE (IF IsAnd(L[a]) THEN ChainsOf(L[a]) ELSE <<>>) \o AndChains(L, a + 1, b)

\* the most recent 'APPLY THE FOLLOWING TO CHAINS:' line before line i, extended
\* by every 'AND CHAINS:' line between it and line i
ChainTupleAt(L, i) ==
    LET A == {j \in 1..i - 1 : IsApply(L[j])}
        a == IF A = {} THEN 0 ELSE SetMax(A)
    IN  (IF a = 0 THEN <<>> ELSE ChainsOf(L[a])) \o AndChains(L, a + 1, i - 1)

OpNum(l) == ParseInt(Slice(l, 8, 12))
OpVec(l) == MapFloat(SplitWs(SliceFrom(l, 12)))

\* the last 'BIOMOLECULE:' line of number n, or 0
LastHeaderOf(L, n) ==
    LET H == {j \in 1..Len(L) : IsHeader(L[j]) /\ ParseInt(SliceFrom(L[j], 12)) = n}
    IN  IF H = {} THEN 0 ELSE SetMax(H)

\* the values, in order of appearance, of the BIOMT lines a..Len(L) that belong
\* to operator num of chain tuple ch of biomolecule n
RECURSIVE ValuesOf(_, _, _, _, _)
ValuesOf(L, n, ch, num, a) ==
    IF a > Len(L) THEN <<>>
    ELSE (IF /\ IsBiomt(L[a])
             /\ MostRecentNumber(L, a) = n
             /\ ChainTupleAt(L, a) = ch
             /\ OpNum(L[a]) = num
          THEN OpVec(L[a]) ELSE <<>>) \o ValuesOf(L, n, ch, num, a + 1)

First12(v) == SubSeq(v, 1, Min(12, Len(v)))

\* operator num of chain tuple ch is recorded under number n with values v
Recorded(n, ch, num, v) ==
    /\ HasKey(biomt, n)
    /\ HasKey(Get(biomt, n), ch)
    /\ HasKey(Get(Get(biomt, n), ch), num)
    /\ Get(Get(Get(biomt, n), ch), num) = v

\* a copy of exactly the chains ch is created for operator num and transformed
\* by the first 12 of the values v (and the row 0 0 0 1)
CopyMade(ch, num, v) ==
    \E k \in 1..Len(xtal_calls) - 2 :
        /\ xtal_calls[k].op = "create"
        /\ xtal_calls[k].name = [prefix |-> "name", suffix |-> number, num |-> num]
        /\ xtal_calls[k].arg = ch
        /\ xtal_calls[k + 2].op = "transform_object"
        /\ xtal_calls[k + 2].name = xtal_calls[k].name
        /\ xtal_calls[k + 2].arg = First12(v) \o <<0, 0, 0, 10>>

\* every copy created belongs to a BIOMT line after line `after(number)`
OnlyOperatorCopies(L, after) ==
    \A k \in 1..Len(xtal_calls) :
        xtal_calls[k].op = "create" =>
            \E i \in after + 1..Len(L) :
                /\ IsBiomt(L[i])
                /\ MostRecentNumber(L, i) = number
                /\ ChainTupleAt(L, i) = xtal_calls[k].arg
                /\ OpNum(L[i]) = xtal_calls[k].name.num

Parsed == xtal_pc = "done" /\ HasKey(remarks, 350)

C2_NoBiomolecule ==
    xtal_pc = "done" =>
        LET none350 == RemarkIndices(350) = {}
            noBiomt ==
                /\ ~none350
                /\ LET L == Get(remarks, 350) IN
                   \A i \in 1..Len(L) : IsBiomt(L[i]) => MostRecentNumber(L, i) # number
        IN  none350 \/ noBiomt => xtal_exc = "CmdException" /\ xtal_calls = <<>>

\* biomolecule 2 is announced but all BIOMT records belong to number 1
C2_Witness ==
    /\ xtal_pc = "done" /\ number = 2
    /\ file = B_Op1 \o B_Header2
    /\ HasKey(biomt, 2) /\ Get(biomt, 2) = <<>>
    /\ xtal_exc = "CmdException" /\ xtal_calls = <<>>

(***************************************************************************)
(* map_new_apbs: the retry loop                                            *)
(***************************************************************************)

\* range(3): the number of passes of the loop
MaxTries == 3

\* max(64, n / grid): the least number of grid points per axis
MinDime == 64

\* the exit codes on which the loop retries with a doubled grid spacing
RetryCodesAnyFailure == {-6, -9, -11, 1}

RetryCodes == {-6, -9}

\* the factor of "grid *= 2.0"
GridFactor == 2

\* exit codes of the executable: success, SIGABRT, SIGKILL, SIGSEGV, and an
\* ordinary failure
ExitCodes == {0, -6, -9, -11, 1}

\* number of map*.dx files apbs may leave behind
DxCounts == {0, 1, 2}

\* the grid spacings and fine-grid lengths the command is called with
MaxGrid == 2
FgLens == {40, 200}

\* dime = 1 + max(64, n / grid), written with %d
Dime(n, g) == 1 + Max(MinDime, n \div g)

ApbsInit ==
    /\ apbs_pc = "loop"
    /\ apbs_i = 0
    /\ grid0 \in 1..MaxGrid
    /\ grid = grid0
    /\ fglen \in FgLens
    /\ dime = 0
    /\ r = 0
    /\ apbs_calls = <<>>
    /\ apbs_exc = ""
    /\ XtalIdle /\ ContactIdle /\ SymIdle /\ ComIdle

\* one pass of "for _ in range(3)" up to the call: dime is computed and the
\* input file written; a loop that has run out falls through to the dx check
ApbsWriteInput ==
    /\ apbs_pc = "loop"
    /\ IF apbs_i < MaxTries
       THEN /\ apbs_i' = apbs_i + 1
            /\ dime' = Dime(fglen, grid)
            /\ apbs_pc' = "run"
       ELSE /\ apbs_pc' = "after"
            /\ UNCHANGED <<apbs_i, dime>>
    /\ UNCHANGED <<grid, grid0, fglen, r, apbs_calls, apbs_exc, xtalVars, contactVars, symVars, comVars>>

\* r = subprocess.call([exe, infile]) and the three branches on r
ApbsRun ==
    /\ apbs_pc = "run"
    /\ \E code \in ExitCodes :
        /\ r' = code
        /\ apbs_calls' = Append(apbs_calls, [grid |-> grid, dime |-> dime, r |-> code])
        /\ IF code = 0
           THEN /\ apbs_pc' = "after"
                /\ UNCHANGED <<grid, apbs_exc>>
           ELSE IF code \in RetryCodes
           THEN /\ grid' = grid * GridFactor
                /\ apbs_pc' = "loop"
                /\ UNCHANGED apbs_exc
           ELSE /\ apbs_exc' = "apbs failed with code"
                /\ apbs_pc' = "raised"
                /\ UNCHANGED grid
    /\ UNCHANGED <<apbs_i, grid0, fglen, dime, xtalVars, contactVars, symVars, comVars>>

\* subprocess.call raises OSError: the executable was not run
ApbsOSError ==
    /\ apbs_pc = "run"
    /\ apbs_exc' = "Cannot execute"
    /\ apbs_pc' = "raised"
    /\ UNCHANGED <<apbs_i, grid, grid0, fglen, dime, r, apbs_calls, xtalVars, contactVars, symVars, comVars>>

\* dx_list = glob.glob(stem + '*.dx'); exactly one file is loaded as the map
ApbsLoad ==
    /\ apbs_pc = "after"
    /\ \E n \in DxCounts :
        IF n # 1
        THEN /\ apbs_exc' = "dx file missing"
             /\ apbs_pc' = "raised"
        ELSE /\ apbs_pc' = "done"
             /\ UNCHANGED apbs_exc
    /\ UNCHANGED <<apbs_i, grid, grid0, fglen, dime, r, apbs_calls, xtalVars, contactVars, symVars, comVars>>

ApbsNext == ApbsWriteInput \/ ApbsRun \/ ApbsOSError \/ ApbsLoad

SpecApbs == ApbsInit /\ [][ApbsNext]_vars

RECURSIVE Pow2(_)
Pow2(k) == IF k <= 0 THEN 1 ELSE 2 * Pow2(k - 1)

\* C1: apbs is invoked at most 3 times; the k-th invocation uses grid spacing
\* grid*2^(k-1) (and the dime computed from it); an invocation after the first
\* happens only if the previous one exited with -6 or -9; after an exit code
\* of 0 the loop is left with no further invocation and no "apbs failed"
\* exception, and after any other code CmdException is raised at once.
C1_RetryLoop ==
    /\ Len(apbs_calls) <= 3
    /\ \A k \in 1..Len(apbs_calls) :
        /\ apbs_calls[k].grid = grid0 * Pow2(k - 1)
        /\ apbs_calls[k].dime = 1 + Max(64, fglen \div (grid0 * Pow2(k - 1)))
        /\ k > 1 => apbs_calls[k - 1].r \in {-6, -9}
    /\ apbs_calls # <<>> /\ apbs_pc # "run" =>
        LET last == apbs_calls[Len(apbs_calls)].r IN
        /\ last = 0 => apbs_pc \in {"after", "done", "raised"} /\ apbs_exc # "apbs failed with code"
        /\ last \notin {0, -6, -9} => apbs_pc = "raised" /\ apbs_exc = "apbs failed with code"
        /\ last \in {-6, -9} => apbs_exc # "apbs failed with code"

\* the third invocation ran with four times the grid spacing and failed again
C1_Witness ==
    /\ Len(apbs_calls) = 3
    /\ apbs_calls[3].grid = 4 * grid0
    /\ apbs_calls[3].r = -9
    /\ apbs_pc = "raised"
    /\ apbs_exc = "dx file missing"

(***************************************************************************)
(* contactmap.py: contactmap                                               *)
(***************************************************************************)

\* def comp(thre,val): return thre - 1e-12 < val
\* probabilities and cutoffs are counted in halves of 1e-12
Tolerance == 2

comp(thre, val) == thre - Tolerance < val

\* the objects of the host, as cmd.iterate visits them: chain, resi, resn.
\* m1 is a complex of two different chains, m2 a single chain with a residue 0
HostAtoms(model) ==
    IF model = "m1"
    THEN << [chain |-> "A", resi |-> 1, resn |-> "ALA"],
            [chain |-> "A", resi |-> 2, resn |-> "GLY"],
            [chain |-> "B", resi |-> 2, resn |-> "ALA"],
            [chain |-> "B", resi |-> 3, resn |-> "LEU"] >>
    ELSE << [chain |-> "A", resi |-> 0, resn |-> "MET"],
            [chain |-> "A", resi |-> 1, resn |-> "GLY"],
            [chain |-> "A", resi |-> 2, resn |-> "ALA"] >>

Models == {"m1", "m2"}
Chains == {"A", "B"}

\* stored.resdict = {}
StaleResdict(old) == old

FreshResdict(old) == <<>>

\* cmd.iterate(model, "stored.resdict[ int(resi) ] = resn")
RECURSIVE Iterate(_, _)
Iterate(atoms, d) ==
    IF atoms = <<>> THEN d
    ELSE Iterate(Tail(atoms), Put(d, Head(atoms).resi, Head(atoms).resn))

\* the body of "for s in l": sec = s.split(), fields sec[1], sec[2], sec[4]
RECURSIVE ContactLoop(_, _, _, _)
ContactLoop(lines, resdict, args, made) ==
    IF lines = <<>> THEN made
    ELSE LET sec == Head(lines)
             a == sec[2] + args.offset
             b == sec[3] + args.offset
             probability == sec[5]
             cara == IF Get(resdict, a) = "GLY" THEN "CA" ELSE "CB"
             carb == IF Get(resdict, b) = "GLY" THEN "CA" ELSE "CB"
         IN  IF ~comp(args.pcut, probability) THEN ContactLoop(Tail(lines), resdict, args, made)
             ELSE IF a * b = 0 THEN ContactLoop(Tail(lines), resdict, args, made)
             ELSE IF ~HasKey(resdict, a) \/ ~HasKey(resdict, b)
             THEN ContactLoop(Tail(lines), resdict, args, made)
             ELSE ContactLoop(Tail(lines), resdict, args,
                      Append(made,
                          [name |-> <<a, b, args.selection>>,
                           sel1 |-> <<args.selection, args.chain, a, cara>>,
                           sel2 |-> <<args.selection, args.chain, b, carb>>]))

\* stored.resdict after the reset and cmd.iterate, starting from what was left in it
ResdictOf(args, left) == Iterate(HostAtoms(args.selection), FreshResdict(left))

\* the cmd.distance calls of contactmap(**args) on the file lines
ContactmapMade(args, left, lines) == ContactLoop(lines, ResdictOf(args, left), args, <<>>)

\* the lines of a contact file: index, i, j, a separation, the probability
ContactLines ==
    { <<0, 1, 2, 5, 10>>, <<1, 1, 2, 5, 9>>, <<2, 1, 2, 5, 8>>,
      <<3, 2, 3, 7, 11>>, <<4, 0, 1, 9, 10>> }

Pcuts == {10}
Offsets == {0, 1}

\* the longest contact file and the largest number of calls
MaxContactLines == 2
MaxCalls == 2

ContactInit ==
    /\ align \in SeqsUpTo(ContactLines, MaxContactLines)
    /\ stored_resdict = <<>>
    /\ cm_args = <<>>
    /\ cm_made = <<>>
    /\ cm_exc = ""
    /\ cm_calls = 0
    /\ cm_prior = <<>>
    /\ ApbsIdle /\ XtalIdle /\ SymIdle /\ ComIdle

\* a call contactmap(selection, chain, align, pcut, offset)
Contactmap ==
    /\ cm_calls < MaxCalls
    /\ \E selection \in Models \cup {""}, chain \in Chains, pcut \in Pcuts, offset \in Offsets :
        LET args == [selection |-> selection, chain |-> chain, pcut |-> pcut, offset |-> offset]
        IN  /\ cm_args' = args
            /\ IF selection = ""
               THEN /\ cm_exc' = "CmdException"
                    /\ cm_made' = <<>>
                    /\ UNCHANGED stored_resdict
               ELSE /\ cm_exc' = ""
                    /\ stored_resdict' = ResdictOf(args, stored_resdict)
                    /\ cm_made' = ContactmapMade(args, stored_resdict, align)
    /\ cm_prior' = stored_resdict
    /\ cm_calls' = cm_calls + 1
    /\ UNCHANGED <<align, apbsVars, xtalVars, symVars, comVars>>

ContactNext == Contactmap

SpecContact == ContactInit /\ [][ContactNext]_vars

\* the residue numbers of the selection, and whether residue x of the chain is GLY
HostResis(model) == {HostAtoms(model)[k].resi : k \in 1..Len(HostAtoms(model))}

ResidueIsGly(model, chain, x) ==
    \E k \in 1..Len(HostAtoms(model)) :
        /\ HostAtoms(model)[k].chain = chain
        /\ HostAtoms(model)[k].resi = x
        /\ HostAtoms(model)[k].resn = "GLY"

\* atom is the one due for residue x of the chain: CA for GLY, CB otherwise
\* (nothing is said of a residue number the chain does not have)
AtomDue(model, chain, x, atom) ==
    (\E k \in 1..Len(HostAtoms(model)) :
        HostAtoms(model)[k].chain = chain /\ HostAtoms(model)[k].resi = x)
    => atom = IF ResidueIsGly(model, chain, x) THEN "CA" ELSE "CB"

\* the lines of the file for which a distance is due
DueLines(args) ==
    {i \in 1..Len(align) :
        /\ align[i][5] + 2 > args.pcut
        /\ align[i][2] + args.offset # 0
        /\ align[i][3] + args.offset # 0
        /\ align[i][2] + args.offset \in HostResis(args.selection)
        /\ align[i][3] + args.offset \in HostResis(args.selection)}

\* C5: contactmap creates a distance for a line exactly when its probability is
\* at least pcut (up to 1e-12), both residue numbers plus offset are non-zero
\* and both are residue numbers of the selection; the distance joins atom CB of
\* each residue of the chain, or CA when that residue is GLY.
C5_AsStated ==
    cm_calls > 0 /\ cm_exc = "" =>
        LET I == DueLines(cm_args) IN
        /\ Len(cm_made) = Cardinality(I)
        /\ \A k \in 1..Len(cm_made) :
            LET sec == align[KthOf(I, k)]
                a == sec[2] + cm_args.offset
                b == sec[3] + cm_args.offset
            IN  /\ cm_made[k].name = <<a, b, cm_args.selection>>
                /\ SubSeq(cm_made[k].sel1, 1, 3) = <<cm_args.selection, cm_args.chain, a>>
                /\ SubSeq(cm_made[k].sel2, 1, 3) = <<cm_args.selection, cm_args.chain, b>>
                /\ cm_made[k].sel1[4] \in {"CA", "CB"}
                /\ cm_made[k].sel2[4] \in {"CA", "CB"}
                /\ AtomDue(cm_args.selection, cm_args.chain, a, cm_made[k].sel1[4])
                /\ AtomDue(cm_args.selection, cm_args.chain, b, cm_made[k].sel2[4])

\* the same for an object in which no residue number occurs in two chains
C5_SingleChain == cm_calls > 0 /\ cm_exc = "" /\ cm_args.selection = "m2" => C5_AsStated

\* what a call may find in stored.resdict: nothing, or the residues of an object
Leftovers == {<<>>} \cup {Iterate(HostAtoms(m), <<>>) : m \in Models}

\* C9: the distances a call of contactmap creates are those its arguments, the
\* contact file and the host's object give, whatever an earlier call left in
\* stored.resdict.
C9_Stateless ==
    cm_calls > 0 /\ cm_exc = "" =>
        /\ cm_prior \in Leftovers
        /\ \A left \in Leftovers : cm_made = ContactmapMade(cm_args, left, align)
        /\ stored_resdict = Iterate(HostAtoms(cm_args.selection), <<>>)

\* a second call, on another object than the one whose residues the first left
\* in stored.resdict, creates a distance
C9_Witness ==
    /\ cm_calls = 2 /\ cm_exc = ""
    /\ cm_prior = Iterate(HostAtoms("m1"), <<>>)
    /\ cm_args.selection = "m2"
    /\ cm_made # <<>>

(***************************************************************************)
(* xtal.py: symexpcell and supercell                                       *)
(*                                                                         *)
(* Coordinates are fractional (in the basis of the cell), counted in       *)
(* sixths of a cell edge; a matrix is its rotation part and its            *)
(* translation, and stands for basis * mat * basis.I in the calls.         *)
(***************************************************************************)

\* one cell edge, in sixths
Den == 2 * 3

Identity3 == << <<1, 0, 0>>, <<0, 1, 0>>, <<0, 0, 1>> >>

\* xray.sg_sym_to_mat_list(spacegroup), for three space groups
SymOps(sg) ==
    IF sg = "P 1" THEN << [rot |-> Identity3, tr |-> <<0, 0, 0>>] >>
    ELSE IF sg = "P 21"
    THEN << [rot |-> Identity3, tr |-> <<0, 0, 0>>],
            [rot |-> << <<-1, 0, 0>>, <<0, 1, 0>>, <<0, 0, -1>> >>, tr |-> <<0, 3, 0>>] >>
    ELSE << [rot |-> Identity3, tr |-> <<0, 0, 0>>],
            [rot |-> << <<0, -1, 0>>, <<1, -1, 0>>, <<0, 0, 1>> >>, tr |-> <<0, 0, 2>>],
            [rot |-> << <<-1, 1, 0>>, <<-1, 0, 0>>, <<0, 0, 1>> >>, tr |-> <<0, 0, 4>>] >>

SpaceGroups == {"P 1", "P 21", "P 31"}

\* mat * center_cell: the image of a point
Image(mat, c) ==
    [d \in 1..3 |-> mat.rot[d][1] * c[1] + mat.rot[d][2] * c[2] + mat.rot[d][3] * c[3] + mat.tr[d]]

\* numpy.floor of a coordinate, in whole cells
TruncCells(x) == IF x >= 0 THEN x \div Den ELSE 0 - ((0 - x) \div Den)

FloorCells(x) == x \div Den

\* shift = numpy.floor(mat * center_cell); mat[0:3,3] -= shift; mat[0:3,3] += extra_shift
ShiftedMat(mat, c, abc) ==
    [mat EXCEPT !.tr = [d \in 1..3 |->
        mat.tr[d] - Den * FloorCells(Image(mat, c)[d]) + Den * abc[d]]]

\* the body of "for mat in matrices", from operator i on
RECURSIVE SymexpLoop(_, _, _, _, _)
SymexpLoop(matrices, i, prefix, c, abc) ==
    IF i > Len(matrices) THEN <<>>
    ELSE LET name == Append(prefix, i) IN
         << [op |-> "create", name |-> name, arg |-> <<>>],
            [op |-> "transform_object", name |-> name, arg |-> <<ShiftedMat(matrices[i], c, abc)>>],
            [op |-> "color", name |-> name, arg |-> <<i + 1>>] >>
         \o SymexpLoop(matrices, i + 1, prefix, c, abc)

\* symexpcell(prefix, object, a, b, c): the call itself, then the calls it makes
symexpcell(prefix, sg, c, abc) ==
    << [op |-> "symexpcell", name |-> prefix, arg |-> abc] >>
    \o SymexpLoop(SymOps(sg), 1, prefix, c, abc)

\* range(n)
RangeInclusive(n) == [k \in 1..n + 1 |-> k - 1]

Range(n) == [k \in 1..n |-> k - 1]

\* ts: the three nested loops over range(a), range(b), range(c)
RECURSIVE Translations(_, _, _)
Translations(ra, rb, rc) ==
    IF ra = <<>> THEN <<>>
    ELSE LET RECURSIVE Row(_)
             Row(js) ==
                 IF js = <<>> THEN <<>>
                 ELSE [k \in 1..Len(rc) |-> <<Head(ra), Head(js), rc[k]>>] \o Row(Tail(js))
         IN  Row(rb) \o Translations(Tail(ra), rb, rc)

\* basis[0:3,i], in cell coordinates
Unit(i) == [d \in 1..3 |-> IF d = i + 1 THEN 1 ELSE 0]

Add(u, v) == [d \in 1..3 |-> u[d] + v[d]]

\* the vertices of one cell: for i in range(3), for j in range(4), two vertices
CellVertices(t) ==
    LET vj(i) == << <<0, 0, 0>>, Unit((i + 1) % 3), Unit((i + 2) % 3),
                    Add(Unit((i + 1) % 3), Unit((i + 2) % 3)) >>
        Edge(i, j) == << Add(t, vj(i)[j]), Add(Add(t, vj(i)[j]), Unit(i)) >>
        Axis(i) == Edge(i, 1) \o Edge(i, 2) \o Edge(i, 3) \o Edge(i, 4)
    IN  Axis(0) \o Axis(1) \o Axis(2)

\* the body of "for t in ts": the vertices, and with withmates the mates and their group
RECURSIVE SupercellLoop(_, _, _, _)
SupercellLoop(ts, withmates, sg, c) ==
    IF ts = <<>> THEN [obj |-> <<>>, calls |-> <<>>]
    ELSE LET t == Head(ts)
             groupname == <<"m", t[1], t[2], t[3]>>
             rest == SupercellLoop(Tail(ts), withmates, sg, c)
         IN  [obj |-> CellVertices(t) \o rest.obj,
              calls |-> (IF withmates # 0
                         THEN symexpcell(Append(groupname, "_"), sg, c, t)
                              \o << [op |-> "group", name |-> groupname, arg |-> <<>>] >>
                         ELSE <<>>) \o rest.calls]

\* the centre of the bounding box, in sixths of the cell edges
CentreCoords == {-7, 4}

\* the largest a, b, c of symexpcell and of supercell
MaxShift == 1
MaxRepeat == 2

SymInit ==
    /\ sym_in \in [kind : {"symexpcell", "supercell"},
                   sg : SpaceGroups,
                   centre : [1..3 -> CentreCoords],
                   abc : [1..3 -> -1..Max(MaxShift, MaxRepeat)],
                   withmates : {0, 1}]
    /\ \/ /\ sym_in.kind = "symexpcell"
          /\ \A d \in 1..3 : sym_in.abc[d] <= MaxShift
          /\ sym_in.withmates = 0
       \/ /\ sym_in.kind = "supercell"
          /\ \A d \in 1..3 : sym_in.abc[d] \in 0..MaxRepeat
    /\ sym_calls = <<>>
    /\ cgo = <<>>
    /\ sym_pc = "start"
    /\ ApbsIdle /\ XtalIdle /\ ContactIdle /\ ComIdle

\* symexpcell prefix, object, a, b, c
Symexpcell ==
    /\ sym_pc = "start"
    /\ sym_in.kind = "symexpcell"
    /\ sym_calls' = symexpcell(<<"mate">>, sym_in.sg, sym_in.centre, sym_in.abc)
    /\ sym_pc' = "done"
    /\ UNCHANGED <<sym_in, cgo, apbsVars, xtalVars, contactVars, comVars>>

\* supercell a, b, c, object, color, name, withmates
Supercell ==
    /\ sym_pc = "start"
    /\ sym_in.kind = "supercell"
    /\ LET ts == Translations(Range(sym_in.abc[1]), Range(sym_in.abc[2]), Range(sym_in.abc[3]))
           out == SupercellLoop(ts, sym_in.withmates, sym_in.sg, sym_in.centre)
       IN  /\ cgo' = out.obj
           /\ sym_calls' = out.calls \o
                << [op |-> "delete", name |-> <<"supercell">>, arg |-> <<>>],
                   [op |-> "load_cgo", name |-> <<"supercell">>, arg |-> <<>>],
                   [op |-> "color", name |-> <<"supercell">>, arg |-> <<>>] >>
    /\ sym_pc' = "done"
    /\ UNCHANGED <<sym_in, apbsVars, xtalVars, contactVars, comVars>>

SymNext == Symexpcell \/ Supercell

SpecSym == SymInit /\ [][SymNext]_vars

\* the positions in sym_calls of the calls of an operation
CallsOf(op) == {k \in 1..Len(sym_calls) : sym_calls[k].op = op}

\* C6: symexpcell creates exactly one object per symmetry operator of the space
\* group, named prefix1..prefixN in operator order; each is the operator
\* followed by a translation by whole cell vectors, such that the image of the
\* centre of the bounding box has fractional coordinates in
\* [a,a+1) x [b,b+1) x [c,c+1).
C6_Symexpcell ==
    sym_pc = "done" /\ sym_in.kind = "symexpcell" =>
        LET ops == SymOps(sym_in.sg)
            C == CallsOf("create")
        IN  /\ Cardinality(C) = Len(ops)
            /\ Cardinality(CallsOf("transform_object")) = Len(ops)
            /\ \A n \in 1..Len(ops) :
                LET k == KthOf(C, n)
                    m == sym_calls[k + 1].arg[1]
                    img == [d \in 1..3 |->
                              m.rot[d][1] * sym_in.centre[1] + m.rot[d][2] * sym_in.centre[2]
                              + m.rot[d][3] * sym_in.centre[3] + m.tr[d]]
                IN  /\ sym_calls[k].name = <<"mate", n>>
                    /\ sym_calls[k + 1].op = "transform_object"
                    /\ sym_calls[k + 1].name = <<"mate", n>>
                    /\ m.rot = ops[n].rot
                    /\ \A d \in 1..3 :
                        /\ (m.tr[d] - ops[n].tr[d]) % 6 = 0
                        /\ 6 * sym_in.abc[d] <= img[d]
                        /\ img[d] < 6 * (sym_in.abc[d] + 1)

\* three mates of P 31 for a centre left of the origin, asked for in the cell
\* at (1, 0, -1)
C6_Witness ==
    /\ sym_pc = "done" /\ sym_in.kind = "symexpcell"
    /\ sym_in.sg = "P 31"
    /\ sym_in.centre = <<-7, 4, -7>>
    /\ sym_in.abc = <<1, 0, -1>>
    /\ Cardinality(CallsOf("create")) = 3
    /\ sym_calls[6].arg[1].tr # SymOps("P 31")[2].tr

\* the 12 edges of the unit cell at t: pairs of corners one step apart along an axis
Corners(t) == {[d \in 1..3 |-> t[d] + o[d]] : o \in [1..3 -> {0, 1}]}

CubeEdges(t) ==
    {e \in Corners(t) \X Corners(t) :
        \E i \in 1..3 : \A d \in 1..3 : e[2][d] = e[1][d] + (IF d = i THEN 1 ELSE 0)}

\* the cells asked for
CellsOf(abc) ==
    {t \in [1..3 -> 0..Max(abc[1], Max(abc[2], abc[3]))] : \A d \in 1..3 : t[d] < abc[d]}

\* the edges drawn: the consecutive pairs of vertices of the cgo object
Pairs == {m \in 1..Len(cgo) \div 2 : TRUE}
PairAt(m) == <<cgo[2 * m - 1], cgo[2 * m]>>

\* C7: supercell draws exactly a*b*c unit cells, one for every translation
\* (i,j,k) with 0<=i<a, 0<=j<b, 0<=k<c, each with its 12 edges (24 vertices)
\* shifted by (i,j,k) cell vectors; with withmates it calls symexpcell exactly
\* once per cell, with that translation, and not at all without.
C7_Supercell ==
    sym_pc = "done" /\ sym_in.kind = "supercell" =>
        LET abc == sym_in.abc
            cells == CellsOf(abc)
        IN  /\ Cardinality(cells) = abc[1] * abc[2] * abc[3]
            /\ Len(cgo) = 24 * abc[1] * abc[2] * abc[3]
            /\ \A m \in Pairs : \E t \in cells : PairAt(m) \in CubeEdges(t)
            /\ \A t \in cells : \A e \in CubeEdges(t) :
                Cardinality({m \in Pairs : PairAt(m) = e})
                    = Cardinality({u \in cells : e \in CubeEdges(u)})
            /\ IF sym_in.withmates # 0
               THEN /\ \A t \in cells :
                        Cardinality({k \in CallsOf("symexpcell") : sym_calls[k].arg = t}) = 1
                    /\ Cardinality(CallsOf("symexpcell")) = Cardinality(cells)
               ELSE CallsOf("symexpcell") = {}

\* a supercell of 2 x 1 x 2 cells with mates: 96 vertices and four calls of symexpcell
C7_Witness ==
    /\ sym_pc = "done" /\ sym_in.kind = "supercell"
    /\ sym_in.abc = <<2, 1, 2>> /\ sym_in.withmates = 1
    /\ Len(cgo) = 96
    /\ Cardinality(CallsOf("symexpcell")) = 4

(***************************************************************************)
(* querying.py: centerofmass                                               *)
(***************************************************************************)

\* the states the loop visits
StatesOfShort(state, current, nstates) ==
    IF state < 0 THEN <<current>>
    ELSE IF state = 0 THEN [k \in 1..nstates - 1 |-> k]
    ELSE <<state>>

StatesOf(state, current, nstates) ==
    IF state < 0 THEN <<current>>
    ELSE IF state = 0 THEN [k \in 1..nstates |-> k]
    ELSE <<state>>

\* cmd.get_model(selection, state).atom: no atoms in a state the object lacks
AtomsIn(host, state) == IF state \in 1..host.nstates THEN host.atoms[state] ELSE <<>>

\* the loop "for a in model.atom", from the sums so far; masses and
\* occupancies are whole numbers (occupancy in halves)
RECURSIVE AtomLoop(_, _)
AtomLoop(atoms, acc) ==
    IF atoms = <<>> THEN acc
    ELSE LET a == Head(atoms)
             m == a.mass * a.q
         IN  IF a.q = 0 THEN AtomLoop(Tail(atoms), acc)
             ELSE AtomLoop(Tail(atoms),
                      [com |-> [d \in 1..3 |-> acc.com[d] + a.coord[d] * m],
                       totmass |-> acc.totmass + m])

\* the loop "for state in states"
RECURSIVE StateLoop(_, _, _)
StateLoop(states, host, acc) ==
    IF states = <<>> THEN acc
    ELSE StateLoop(Tail(states), host, AtomLoop(AtomsIn(host, Head(states)), acc))

\* the atoms of one state: a carbon of any occupancy at a fixed place and a
\* fully occupied oxygen at one of two places
Carbons == {[coord |-> <<1, 0, -2>>, mass |-> 12, q |-> q] : q \in {0, 1, 2}}
Oxygens == {[coord |-> c, mass |-> 16, q |-> 2] : c \in {<<0, 3, 0>>, <<-4, 1, 5>>}}
StateAtoms == {<<a, b>> : a \in Carbons, b \in Oxygens}

\* the largest number of states of the object
MaxStates == 2

ComInit ==
    /\ \E n \in 1..MaxStates :
        com_in \in [state : -1..MaxStates + 1, current : 1..n, nstates : {n},
                    atoms : [1..n -> StateAtoms]]
    /\ com = <<0, 0, 0>>
    /\ totmass = 0
    /\ com_exc = ""
    /\ com_pc = "start"
    /\ ApbsIdle /\ XtalIdle /\ ContactIdle /\ SymIdle

\* centerofmass(selection, state): com and totmass are the sums; the value
\* returned is com scaled by 1./totmass, and a total of 0 raises ZeroDivisionError
Centerofmass ==
    /\ com_pc = "start"
    /\ LET acc == StateLoop(StatesOf(com_in.state, com_in.current, com_in.nstates), com_in,
                            [com |-> <<0, 0, 0>>, totmass |-> 0])
       IN  /\ com' = acc.com
           /\ totmass' = acc.totmass
           /\ com_exc' = IF acc.totmass = 0 THEN "ZeroDivisionError" ELSE ""
    /\ com_pc' = "done"
    /\ UNCHANGED <<com_in, apbsVars, xtalVars, contactVars, symVars>>

ComNext == Centerofmass

SpecCom == ComInit /\ [][ComNext]_vars

RECURSIVE SumOver(_, _)
SumOver(S, f) ==
    IF S = {} THEN 0 ELSE LET x == CHOOSE y \in S : TRUE IN f[x] + SumOver(S \ {x}, f)

\* the states the claim names, and the atoms that count: <<state, index>>
ChosenStates ==
    IF com_in.state < 0 THEN {com_in.current}
    ELSE IF com_in.state = 0 THEN 1..com_in.nstates
    ELSE {com_in.state} \cap 1..com_in.nstates

Counted ==
    {sk \in ChosenStates \X (1..2) : com_in.atoms[sk[1]][sk[2]].q # 0}

\* C8: centerofmass returns the mean of the atom coordinates weighted by mass
\* times occupancy over the chosen states (state<0: the current state, state=0:
\* all states 1..count_states, state>0: that state); atoms of occupancy 0
\* contribute neither to the sum nor to the total mass.
C8_Centerofmass ==
    com_pc = "done" /\ com_exc = "" =>
        LET w == [sk \in Counted |->
                     com_in.atoms[sk[1]][sk[2]].mass * com_in.atoms[sk[1]][sk[2]].q]
            x == [sk \in Counted |-> w[sk] * com_in.atoms[sk[1]][sk[2]].coord[1]]
            y == [sk \in Counted |-> w[sk] * com_in.atoms[sk[1]][sk[2]].coord[2]]
            z == [sk \in Counted |-> w[sk] * com_in.atoms[sk[1]][sk[2]].coord[3]]
        IN  /\ totmass = SumOver(Counted, w)
            /\ totmass > 0
            /\ com = <<SumOver(Counted, x), SumOver(Counted, y), SumOver(Counted, z)>>

\* all states of a two-state object, the carbon unoccupied in the first state
C8_Witness ==
    /\ com_pc = "done" /\ com_exc = ""
    /\ com_in.state = 0 /\ com_in.nstates = 2
    /\ com_in.atoms[1][1].q = 0 /\ com_in.atoms[2][1].q = 1
    /\ com_in.atoms[1][2].coord # com_in.atoms[2][2].coord
    /\ totmass = 12 + 32 + 32

=============================================================================
